---- MODULE Spec2Model ----
(***************************************************************************)
(* The hybrid ruv-swarm MCP gateway of bin/ruv-swarm-hybrid.js: one Node   *)
(* process serving JSON-RPC over stdio and HTTP/SSE.  Every event-loop     *)
(* callback of the program is one action; an `await` on an external        *)
(* collaborator (RuvSwarm.initialize, a tool handler, swarm_status) is a   *)
(* suspension point, recorded as a task that a later action resumes.       *)
(* Awaits that resolve within the same tick (getVersion,                   *)
(* getToolDefinitions, an async function that has already returned) are    *)
(* run through inside the action that reaches them.                        *)
(***************************************************************************)
EXTENDS Integers, Sequences, FiniteSets, TLC

VARIABLES
    mode,            \* main: 'stdio' | 'http' | 'hybrid'
    keepAlive,       \* main: keepAlive || isDaemon
    proc,            \* "running" | "exited"
    exitCode,        \* process.exit status, -1 while running
    exitBy,          \* which handler called process.exit
    mainPc,          \* where main() stands
    httpServer,      \* "none" | "listening" | "closed"
    keepAliveTimer,  \* the setInterval of main
    globalRuvSwarm,  \* TRUE once assigned
    globalMCPTools,  \* NULL, or tool name -> whose function the member is
    primaryOwn,      \* names EnhancedMCPTools defines as functions
    daaOwn,          \* names daaMcpTools defines as functions
    ruvInitCalls,    \* calls of RuvSwarm.initialize
    ctorCalls,       \* calls of new EnhancedMCPTools
    depsLoaded,      \* the lazy imports (RuvSwarm, ...) are assigned
    depLoads,        \* how often loadDependencies started the imports
    initialized,     \* which of initialize / ensureInitialized have resolved
    stdin,           \* the whole input stream the client will send
    stdinPos,        \* how much of it has been delivered in 'data' events
    stdinEnded,      \* 'end' has been emitted
    stdioUp,         \* the stdin handlers are registered
    buffer,          \* startStdioServer: buffer
    messageCount,    \* startStdioServer: messageCount
    framedCount,     \* lines split off the buffer so far
    chunkCount,      \* 'data' events so far
    decoded,         \* the lines handed to JSON.parse, in call order
    stdout,          \* what was written to process.stdout
    tasks,           \* suspended async functions
    httpReqs,        \* HTTP requests received so far
    httpResp,        \* request number -> response written
    clock,           \* Date.now()
    conn,            \* the /events connections
    sseClients,      \* the Map clientId -> res
    listeners,       \* sseEventEmitter: event type -> connections listening
    emitted          \* every sseEventEmitter.emit, in order

vars == <<mode, keepAlive, proc, exitCode, exitBy, mainPc, httpServer, keepAliveTimer,
          globalRuvSwarm, globalMCPTools, primaryOwn, daaOwn, ruvInitCalls,
          ctorCalls, depsLoaded, depLoads, initialized, stdin, stdinPos, stdinEnded, stdioUp, buffer,
          messageCount, framedCount, chunkCount, decoded, stdout, tasks,
          httpReqs, httpResp, clock, conn, sseClients, listeners, emitted>>

lifeVars  == <<mode, keepAlive, proc, exitCode, exitBy, mainPc, httpServer,
               keepAliveTimer>>
ctxVars   == <<globalRuvSwarm, globalMCPTools, primaryOwn, daaOwn, ruvInitCalls, ctorCalls,
               depsLoaded, depLoads, initialized>>
stdioVars == <<stdin, stdinPos, stdinEnded, stdioUp, buffer, messageCount,
               framedCount, chunkCount, decoded, stdout>>
httpVars  == <<httpReqs, httpResp>>
sseVars   == <<clock, conn, sseClients, listeners>>

----------------------------------------------------------------------------
(* Bounds of the model *)

MaxChunk == 8        \* longest chunk one 'data' event delivers
MaxHttp == 2         \* HTTP requests in one run
MaxConns == 2        \* /events connections in one run
MaxClock == 1        \* ticks of Date.now()
MaxHeartbeats == 1   \* heartbeats written to one connection
BusCalls == 1        \* HTTP requests in a run of SpecBus or SpecCall
CallConns == 1       \* /events connections in a run of SpecCall

NULL == "null"          \* a null id
NullTools == <<>>       \* globalMCPTools = null

----------------------------------------------------------------------------
(* Text: a string is a sequence of one-character strings *)

NL == "\n"
SP == " "

\* the index of the first NL of s, 0 if there is none
RECURSIVE IndexOfNL(_, _)
IndexOfNL(s, i) ==
    IF i > Len(s) THEN 0
    ELSE IF s[i] = NL THEN i
    ELSE IndexOfNL(s, i + 1)

\* String.prototype.split('\n')
RECURSIVE Split(_)
Split(s) ==
    LET i == IndexOfNL(s, 1) IN
    IF i = 0 THEN <<s>>
    ELSE <<SubSeq(s, 1, i - 1)>> \o Split(SubSeq(s, i + 1, Len(s)))

\* String.prototype.trim()
RECURSIVE TrimLeft(_)
TrimLeft(s) ==
    IF s # <<>> /\ Head(s) = SP THEN TrimLeft(Tail(s)) ELSE s

RECURSIVE TrimRight(_)
TrimRight(s) ==
    IF s # <<>> /\ s[Len(s)] = SP THEN TrimRight(SubSeq(s, 1, Len(s) - 1)) ELSE s

Trim(s) == TrimRight(TrimLeft(s))

\* a pop that takes the first segment, so an emitted line stays buffered
PopFirst(segs) == IF segs = <<>> THEN <<>> ELSE segs[1]

\* lines.pop() || ''
PopOrEmpty(segs) == IF segs = <<>> THEN <<>> ELSE segs[Len(segs)]

\* the lines array after lines.pop()
AllButLast(segs) == IF segs = <<>> THEN <<>> ELSE SubSeq(segs, 1, Len(segs) - 1)

----------------------------------------------------------------------------
(* JSON texts.  A request object is written "{" k "}" where the one        *)
(* character k stands for the object's members.                            *)

ToolNames == {"swarm_init", "daa_init", "daa_extra", "nonexistent_tool"}

Req(id, method, name) == [id |-> id, method |-> method, name |-> name]

RequestKeys == {"a", "b", "e", "x", "i", "l", "u", "n"}

RequestOf(k) ==
    CASE k = "a" -> Req("1", "tools/call", "swarm_init")
      [] k = "b" -> Req("2", "tools/call", "daa_init")
      [] k = "e" -> Req("3", "tools/call", "daa_extra")
      [] k = "x" -> Req("4", "tools/call", "nonexistent_tool")
      [] k = "i" -> Req("5", "initialize", "-")
      [] k = "l" -> Req("6", "tools/list", "-")
      [] k = "u" -> Req("7", "ping", "-")
      [] k = "n" -> Req(NULL, "tools/call", "swarm_init")

\* a parser that takes any text for the swarm_init request
JSONparseLenient(line) == [ok |-> TRUE, isNull |-> FALSE, value |-> RequestOf("a")]

\* the JSON text of the null value
NullText == <<"n", "u", "l", "l">>

\* JSON.parse(line): the value (a request object, or null with isNull set),
\* or a SyntaxError
JSONparse(line) ==
    LET t == Trim(line) IN
    IF Len(t) = 3 /\ t[1] = "{" /\ t[3] = "}" /\ t[2] \in RequestKeys
    THEN [ok |-> TRUE, isNull |-> FALSE, value |-> RequestOf(t[2])]
    ELSE IF t = NullText
    THEN [ok |-> TRUE, isNull |-> TRUE, value |-> Req(NULL, "-", "-")]
    ELSE [ok |-> FALSE, isNull |-> FALSE, value |-> Req(NULL, "-", "-")]

\* the statement that takes the parsed value apart throws: JSON.parse threw
\* a SyntaxError, or reading a property of null throws a TypeError
Throws(parsed) == ~parsed.ok \/ parsed.isNull

----------------------------------------------------------------------------
(* The registries *)

\* initializeSystem: daaToolNames (the names of the list that ToolNames has)
DaaToolNames == {"daa_init"}

\* new EnhancedMCPTools(...): the object and whose function each member is
NewMCPTools ==
    [n \in ToolNames |-> IF n \in primaryOwn THEN "primary" ELSE "none"]

\* the for loop of initializeSystem that copies the DAA methods onto the object
BindDaaTools(tools) ==
    [n \in ToolNames |->
        IF n \in DaaToolNames /\ n \in daaOwn THEN "secondary" ELSE tools[n]]

\* a resolution that takes every name for a function of daaMcpTools
ResolveAnyName(mcpTools, toolName) ==
    IF mcpTools # NullTools /\ mcpTools[toolName] # "none"
    THEN mcpTools[toolName]
    ELSE "secondary"

\* tools/call: which registry's function the name resolves to
Resolve(mcpTools, toolName) ==
    IF mcpTools # NullTools /\ mcpTools[toolName] # "none"
    THEN mcpTools[toolName]
    ELSE IF toolName \in daaOwn THEN "secondary"
    ELSE "none"

----------------------------------------------------------------------------
(* handleMcpRequest *)

ParseErrorCode == -32700
MethodNotFound == -32601
InternalError == -32603

\* what a tool handler can do when awaited
Outcomes == {"value", "null", "fault"}

\* tools: the names of the tool descriptors a tools/list result carries
Response(request, kind, code, data) ==
    [id |-> request.id, kind |-> kind, code |-> code, data |-> data,
     method |-> request.method, tools |-> {}]

\* getToolDefinitions(): the names of the descriptors it returns
GetToolDefinitions == {}

\* a list that names a tool only the first time it is asked
ListedToolsOnce ==
    IF \E i \in DOMAIN stdout : stdout[i].method = "tools/list"
    THEN {}
    ELSE {"swarm_init"}

\* the tools array of the tools/list case
ListedTools == {"swarm_init"} \cup GetToolDefinitions

\* a dispatcher whose switch answers every method as it answers tools/list
HandleStartNoDefault(request, mcpTools) ==
    [done |-> TRUE, owner |-> "none", resp |-> Response(request, "result", 0, "tools")]

\* a dispatcher whose switch has no default case: another method is
\* answered with neither member set
HandleStartSilentDefault(request, mcpTools) ==
    CASE request.method = "initialize" ->
            [done |-> TRUE, owner |-> "none",
             resp |-> Response(request, "result", 0, "2024-11-05")]
      [] request.method = "tools/list" ->
            [done |-> TRUE, owner |-> "none",
             resp |-> [Response(request, "result", 0, "tools") EXCEPT !.tools = ListedTools]]
      [] request.method = "tools/call" ->
            IF Resolve(mcpTools, request.name) # "none"
            THEN [done |-> FALSE, owner |-> Resolve(mcpTools, request.name),
                  resp |-> Response(request, "pending", 0, "-")]
            ELSE [done |-> TRUE, owner |-> "none",
                  resp |-> Response(request, "error", MethodNotFound, request.name)]
      [] OTHER ->
            [done |-> TRUE, owner |-> "none",
             resp |-> Response(request, "none", 0, "-")]

\* the part of handleMcpRequest up to the await of the tool handler:
\* the response when there is no such await, else the registry invoked
HandleStart(request, mcpTools) ==
    CASE request.method = "initialize" ->
            [done |-> TRUE, owner |-> "none",
             resp |-> Response(request, "result", 0, "2024-11-05")]
      [] request.method = "tools/list" ->
            [done |-> TRUE, owner |-> "none",
             resp |-> [Response(request, "result", 0, "tools") EXCEPT !.tools = ListedTools]]
      [] request.method = "tools/call" ->
            IF Resolve(mcpTools, request.name) # "none"
            THEN [done |-> FALSE, owner |-> Resolve(mcpTools, request.name),
                  resp |-> Response(request, "pending", 0, "-")]
            ELSE [done |-> TRUE, owner |-> "none",
                  resp |-> Response(request, "error", MethodNotFound, request.name)]
      [] OTHER ->
            [done |-> TRUE, owner |-> "none",
             resp |-> Response(request, "error", MethodNotFound, request.method)]

\* a guard that asks for a second client
EmitGuardOffByOne == Cardinality(sseClients) > 1

\* if (sseClients.size > 0) of the tools/call case
EmitGuard == Cardinality(sseClients) > 0

\* the event the tools/call case of handleMcpRequest emits
DispatchEvent(request) ==
    [type |-> "tool:executed", tool |-> request.name, timestamp |-> clock,
     shape |-> "args"]

\* a dispatcher whose catch block reports a handler's fault as an unknown tool
HandleFinishFaultAsNull(request, outcome) ==
    CASE outcome \in {"fault", "null"} ->
            [resp |-> Response(request, "error", MethodNotFound, request.name),
             events |-> <<>>]
      [] OTHER ->
            [resp |-> Response(request, "result", 0, "content"),
             events |-> IF EmitGuard THEN <<DispatchEvent(request)>> ELSE <<>>]

\* the part of handleMcpRequest after the await of the tool handler
HandleFinish(request, outcome) ==
    CASE outcome = "fault" ->
            [resp |-> Response(request, "error", InternalError, "fault"),
             events |-> <<>>]
      [] outcome = "null" ->
            [resp |-> Response(request, "error", MethodNotFound, request.name),
             events |-> <<>>]
      [] OTHER ->
            [resp |-> Response(request, "result", 0, "content"),
             events |-> IF EmitGuard THEN <<DispatchEvent(request)>> ELSE <<>>]

----------------------------------------------------------------------------
(* The stdin 'data' handler *)

Written(resp, line, chunk) ==
    [id |-> resp.id, kind |-> resp.kind, code |-> resp.code, data |-> resp.data,
     method |-> resp.method, tools |-> resp.tools, line |-> line, chunk |-> chunk]

\* a catch block that reports the parse failure as an internal error
ParseErrorAsInternal(line, chunk) ==
    [id |-> NULL, kind |-> "error", code |-> InternalError, data |-> "SyntaxError",
     method |-> "-", tools |-> {}, line |-> line, chunk |-> chunk]

\* errorResponse of the catch block
ParseErrorResponse(line, chunk) ==
    [id |-> NULL, kind |-> "error", code |-> ParseErrorCode, data |-> "SyntaxError",
     method |-> "-", tools |-> {}, line |-> line, chunk |-> chunk]

\* initMessage
Greeting ==
    [id |-> NULL, kind |-> "notification", code |-> 0, data |-> "ruv-swarm-hybrid",
     method |-> "server.initialized", tools |-> {}, line |-> 0, chunk |-> 0]

\* a startup that writes no greeting
WriteGreetingSkipped(out) == out

\* process.stdout.write(JSON.stringify(initMessage) + '\n')
WriteGreeting(out) == Append(out, Greeting)

\* a suspended async function: the route it serves ("stdio" for the 'data'
\* handler), the await it stands at, and the locals it resumes with
Task(route, n, pc, req, owner, rest, line, chunk) ==
    [route |-> route, n |-> n, pc |-> pc, req |-> req, owner |-> owner,
     rest |-> rest, line |-> line, chunk |-> chunk]

\* for (const line of lines): the loop run until it suspends in an await on a
\* tool handler or runs out of lines.  lines holds [text, line, chunk];
\* st holds messageCount, the decoded lines and the written output.
RECURSIVE RunLines(_, _)
RunLines(lines, st) ==
    IF lines = <<>> THEN [mc |-> st.mc, dec |-> st.dec, out |-> st.out, susp |-> {}]
    ELSE
      LET l == Head(lines) IN
      IF Trim(l.text) = <<>> THEN RunLines(Tail(lines), st)
      ELSE
        LET parsed == JSONparse(l.text)
            st1 == [mc |-> st.mc + 1, dec |-> Append(st.dec, l.text), out |-> st.out]
        IN
        IF Throws(parsed)
        THEN RunLines(Tail(lines),
                      [st1 EXCEPT !.out = Append(@, ParseErrorResponse(l.line, l.chunk))])
        ELSE
          LET start == HandleStart(parsed.value, globalMCPTools) IN
          IF start.done
          THEN RunLines(Tail(lines),
                        [st1 EXCEPT !.out = Append(@, Written(start.resp, l.line, l.chunk))])
          ELSE [mc |-> st1.mc, dec |-> st1.dec, out |-> st1.out,
                susp |-> {Task("stdio", st1.mc, "tool", parsed.value, start.owner,
                                Tail(lines), l.line, l.chunk)}]

\* the lines of a chunk's split, numbered in the order they leave the buffer
RECURSIVE Numbered(_, _, _)
Numbered(texts, first, chunk) ==
    IF texts = <<>> THEN <<>>
    ELSE <<[text |-> Head(texts), line |-> first, chunk |-> chunk]>>
         \o Numbered(Tail(texts), first + 1, chunk)

----------------------------------------------------------------------------
(* The Event Bus and the /events connections *)

SubscribedTypes == {"swarm:update", "agent:spawn", "task:update", "performance:metrics"}
EventTypes == SubscribedTypes \cup {"tool:executed"}

Conns == 1..MaxConns

Frame(event, tool, ts) == [event |-> event, tool |-> tool, ts |-> ts]

\* since: how many events had been emitted when the connection was made
IdleConn ==
    [state |-> "idle", clientId |-> 0, timer |-> FALSE, beats |-> 0, out |-> <<>>,
     since |-> 0]

\* a connection that is sent nothing before it subscribes
ConnectFramesNone(clientId) == <<>>

\* a connection that is first sent every event emitted so far
ConnectFramesReplay(clientId) ==
    <<Frame("connected", "-", clientId)>>
    \o [k \in 1..Len(emitted) |->
           Frame(emitted[k].type, emitted[k].tool, emitted[k].timestamp)]

\* what /events writes before it subscribes: the connected frame
ConnectFrames(clientId) == <<Frame("connected", "-", clientId)>>

\* sendEvent: the frames a connection's listeners write for a run of events
RECURSIVE FramesFor(_, _)
FramesFor(c, events) ==
    IF events = <<>> THEN <<>>
    ELSE (IF c \in listeners[Head(events).type]
          THEN <<Frame(Head(events).type, Head(events).tool, Head(events).timestamp)>>
          ELSE <<>>)
         \o FramesFor(c, Tail(events))

\* an emit that writes every event to every connection, listening or not
DeliverToAll(events) ==
    [c \in Conns |->
        [conn[c] EXCEPT !.out = @ \o
            [k \in 1..Len(events) |->
                Frame(events[k].type, events[k].tool, events[k].timestamp)]]]

\* sseEventEmitter.emit for each event: every listener of its type runs
Deliver(events) ==
    [c \in Conns |-> [conn[c] EXCEPT !.out = @ \o FramesFor(c, events)]]

\* sseClients.set(clientId, res)
MapSet(m, id, c) == {p \in m : p[1] # id} \cup {<<id, c>>}

\* sseClients.delete(clientId)
MapDelete(m, id) == {p \in m : p[1] # id}

\* the four sseEventEmitter.on calls of a connection
AddListeners(ls, c) ==
    [t \in EventTypes |-> IF t \in SubscribedTypes THEN ls[t] \cup {c} ELSE ls[t]]

\* a removal that clears one event type only
RemoveOneType(ls) == [t \in EventTypes |-> IF t = "swarm:update" THEN {} ELSE ls[t]]

\* sseEventEmitter.removeAllListeners()
RemoveAllListeners(ls) == [t \in EventTypes |-> {}]

\* the event the /api/tools/call route emits
RouteEvent(name, success) ==
    [type |-> "tool:executed", tool |-> name, timestamp |-> clock,
     shape |-> IF success THEN "success:true" ELSE "success:false"]

----------------------------------------------------------------------------
(* initializeSystem *)

\* a loadDependencies that starts the imports on every call
LoadAlways == TRUE

\* loadDependencies: if (!RuvSwarm)
LoadNeeded == ~depsLoaded

\* initializeSystem from the end of loadDependencies to its first await on a
\* collaborator ("ready": it returns without one)
InitAfterLoad ==
    IF ~globalRuvSwarm
    THEN [pc |-> "ruvInit", ruv |-> ruvInitCalls + 1, ctor |-> ctorCalls,
          tools |-> globalMCPTools, loads |-> depLoads]
    ELSE IF globalMCPTools = NullTools
    THEN [pc |-> "toolsInit", ruv |-> ruvInitCalls, ctor |-> ctorCalls + 1,
          tools |-> NewMCPTools, loads |-> depLoads]
    ELSE [pc |-> "ready", ruv |-> ruvInitCalls, ctor |-> ctorCalls,
          tools |-> globalMCPTools, loads |-> depLoads]

\* initializeSystem from its start to its first await on a collaborator or
\* on the imports ("deps")
InitEnter ==
    IF LoadNeeded
    THEN [pc |-> "deps", ruv |-> ruvInitCalls, ctor |-> ctorCalls,
          tools |-> globalMCPTools, loads |-> depLoads + 1]
    ELSE InitAfterLoad

\* initializeSystem from the await it stood at to the next one
InitResume(pc) ==
    CASE pc = "deps" ->
            [pc |-> InitAfterLoad.pc, ctor |-> InitAfterLoad.ctor,
             tools |-> InitAfterLoad.tools, inited |-> initialized,
             ruv |-> InitAfterLoad.ruv, loaded |-> TRUE]
      [] pc = "ruvInit" ->
            IF globalMCPTools = NullTools
            THEN [pc |-> "toolsInit", ctor |-> ctorCalls + 1, tools |-> NewMCPTools,
                  inited |-> initialized, ruv |-> ruvInitCalls, loaded |-> depsLoaded]
            ELSE [pc |-> "ready", ctor |-> ctorCalls, tools |-> globalMCPTools,
                  inited |-> initialized, ruv |-> ruvInitCalls, loaded |-> depsLoaded]
      [] pc = "toolsInit" ->
            [pc |-> "daaInit", ctor |-> ctorCalls, tools |-> globalMCPTools,
             inited |-> initialized \cup {"initialize"},
             ruv |-> ruvInitCalls, loaded |-> depsLoaded]
      [] OTHER ->
            [pc |-> "ready", ctor |-> ctorCalls, tools |-> BindDaaTools(globalMCPTools),
             inited |-> initialized \cup {"ensureInitialized"},
             ruv |-> ruvInitCalls, loaded |-> depsLoaded]

InitStages == {"deps", "ruvInit", "toolsInit", "daaInit"}

----------------------------------------------------------------------------
(* The initial state *)

Streams ==
    { <<"{", "a", "}", NL, "{", "i", "}", NL, "{", "l", "}", NL>>,
      <<SP, NL, "{", "x", "}", SP, NL, "?", NL, "{", "u">>,
      <<"{", "n", "}", NL, NL, "{", "b", "}", NL>>,
      <<"?", NL, "{", "l", "}", NL, "{", "a", "}", NL>> }

Registries ==
    { [primary |-> {"swarm_init"}, daa |-> {"daa_init", "daa_extra"}],
      [primary |-> {"swarm_init", "daa_init", "daa_extra"}, daa |-> {"daa_init", "daa_extra"}] }

Modes == {"stdio", "http", "hybrid"}

InitFlags(modes, streams, registries, flags) ==
    /\ mode \in modes
    /\ keepAlive \in flags
    /\ proc = "running"
    /\ exitCode = -1
    /\ exitBy = "none"
    /\ mainPc = "start"
    /\ httpServer = "none"
    /\ keepAliveTimer = FALSE
    /\ globalRuvSwarm = FALSE
    /\ globalMCPTools = NullTools
    /\ \E r \in registries : primaryOwn = r.primary /\ daaOwn = r.daa
    /\ ruvInitCalls = 0
    /\ ctorCalls = 0
    /\ depsLoaded = FALSE
    /\ depLoads = 0
    /\ initialized = {}
    /\ stdin \in streams
    /\ stdinPos = 0
    /\ stdinEnded = FALSE
    /\ stdioUp = FALSE
    /\ buffer = <<>>
    /\ messageCount = 0
    /\ framedCount = 0
    /\ chunkCount = 0
    /\ decoded = <<>>
    /\ stdout = <<>>
    /\ tasks = {}
    /\ httpReqs = 0
    /\ httpResp = <<>>
    /\ clock = 0
    /\ conn = [c \in Conns |-> IdleConn]
    /\ sseClients = {}
    /\ listeners = [t \in EventTypes |-> {}]
    /\ emitted = <<>>

\* a start without --keep-alive, --daemon and CLAUDE_FLOW_MODE
InitWith(modes, streams, registries) == InitFlags(modes, streams, registries, {FALSE})

Init == InitFlags(Modes, Streams, Registries, BOOLEAN)

----------------------------------------------------------------------------
(* The process *)

\* process.exit(code)
Exit(code, by) ==
    /\ proc' = "exited"
    /\ exitCode' = code
    /\ exitBy' = by

Running == proc = "running"

\* main: from its start, through startStdioServer or startHttpServer and
\* initializeLogger, to the await of the imports in loadDependencies
MainBegin ==
    /\ Running
    /\ mainPc = "start"
    /\ mainPc' = "deps"
    /\ depLoads' = IF LoadNeeded THEN depLoads + 1 ELSE depLoads
    /\ UNCHANGED <<mode, keepAlive, proc, exitCode, exitBy, httpServer, keepAliveTimer>>
    /\ UNCHANGED <<globalRuvSwarm, globalMCPTools, primaryOwn, daaOwn, ruvInitCalls,
                   ctorCalls, depsLoaded, initialized>>
    /\ UNCHANGED <<stdioVars, tasks, httpVars, sseVars, emitted>>

\* main in http mode: the imports are done, startHttpServer creates the
\* server and listens, and main starts the keep-alive timer
MainListen ==
    /\ Running
    /\ mode = "http"
    /\ mainPc = "deps"
    /\ depsLoaded' = TRUE
    /\ mainPc' = "done"
    /\ httpServer' = "listening"
    /\ keepAliveTimer' = TRUE
    /\ UNCHANGED <<mode, keepAlive, proc, exitCode, exitBy>>
    /\ UNCHANGED <<globalRuvSwarm, globalMCPTools, primaryOwn, daaOwn, ruvInitCalls,
                   ctorCalls, depLoads, initialized>>
    /\ UNCHANGED <<stdioVars, tasks, httpVars, sseVars, emitted>>

\* main in stdio or hybrid mode: the imports are done and startStdioServer
\* enters initializeSystem, or its initializeSystem goes on; when it returns, the
\* stdin handlers are registered, the greeting is written, and (hybrid) the
\* HTTP server and the keep-alive timer are started
MainInitOk ==
    /\ Running
    /\ mode \in {"stdio", "hybrid"}
    /\ mainPc \in InitStages
    /\ LET r == InitResume(mainPc) IN
       /\ globalRuvSwarm' = (globalRuvSwarm \/ mainPc = "ruvInit")
       /\ globalMCPTools' = r.tools
       /\ ctorCalls' = r.ctor
       /\ ruvInitCalls' = r.ruv
       /\ depsLoaded' = r.loaded
       /\ initialized' = r.inited
       /\ IF r.pc = "ready"
          THEN /\ mainPc' = "done"
               /\ stdioUp' = TRUE
               /\ stdout' = WriteGreeting(stdout)
               /\ httpServer' = IF mode = "hybrid" THEN "listening" ELSE httpServer
               /\ keepAliveTimer' = (keepAlive \/ mode = "hybrid")
          ELSE /\ mainPc' = r.pc
               /\ UNCHANGED <<stdioUp, stdout, httpServer, keepAliveTimer>>
    /\ UNCHANGED <<mode, keepAlive, proc, exitCode, exitBy, primaryOwn, daaOwn, depLoads>>
    /\ UNCHANGED <<stdin, stdinPos, stdinEnded, buffer, messageCount, framedCount,
                   chunkCount, decoded>>
    /\ UNCHANGED <<tasks, httpVars, sseVars, emitted>>

\* main: the catch block, when a collaborator of initializeSystem faults
MainInitFault ==
    /\ Running
    /\ mainPc \in InitStages
    /\ Exit(1, "startup")
    /\ UNCHANGED <<mode, keepAlive, mainPc, httpServer, keepAliveTimer>>
    /\ UNCHANGED <<ctxVars, stdioVars, tasks, httpVars, sseVars, emitted>>

Signals == {"SIGTERM", "SIGINT"}

\* process.on('SIGTERM' | 'SIGINT')
Signal(sig) ==
    /\ Running
    /\ httpServer' = IF httpServer = "listening" THEN "closed" ELSE httpServer
    /\ sig \in Signals
    /\ Exit(0, "signal")
    /\ UNCHANGED <<mode, keepAlive, mainPc, keepAliveTimer>>
    /\ UNCHANGED <<ctxVars, stdioVars, tasks, httpVars, sseVars, emitted>>

----------------------------------------------------------------------------
(* The stdio transport *)

\* process.stdin.on('data'): the next n characters of the stream arrive
StdinData(n) ==
    /\ Running
    /\ stdioUp
    /\ ~stdinEnded
    /\ n \in 1..MaxChunk
    /\ stdinPos + n <= Len(stdin)
    /\ LET chunk == SubSeq(stdin, stdinPos + 1, stdinPos + n)
           segs == Split(buffer \o chunk)
           lines == AllButLast(segs)
           run == RunLines(Numbered(lines, framedCount + 1, chunkCount + 1),
                           [mc |-> messageCount, dec |-> decoded, out |-> stdout])
       IN /\ stdinPos' = stdinPos + n
          /\ buffer' = PopOrEmpty(segs)
          /\ framedCount' = framedCount + Len(lines)
          /\ chunkCount' = chunkCount + 1
          /\ messageCount' = run.mc
          /\ decoded' = run.dec
          /\ stdout' = run.out
          /\ tasks' = tasks \cup run.susp
    /\ UNCHANGED <<stdin, stdinEnded, stdioUp>>
    /\ UNCHANGED <<lifeVars, ctxVars, httpVars, sseVars, emitted>>

\* the awaited tool handler of a stdio request settles: handleMcpRequest
\* returns, the response is written and the for loop goes on
StdioToolDone(t, outcome) ==
    /\ Running
    /\ t \in tasks
    /\ t.route = "stdio"
    /\ t.pc = "tool"
    /\ outcome \in Outcomes
    /\ LET fin == HandleFinish(t.req, outcome)
           run == RunLines(t.rest,
                           [mc |-> messageCount, dec |-> decoded,
                            out |-> Append(stdout, Written(fin.resp, t.line, t.chunk))])
       IN /\ emitted' = emitted \o fin.events
          /\ conn' = Deliver(fin.events)
          /\ messageCount' = run.mc
          /\ decoded' = run.dec
          /\ stdout' = run.out
          /\ tasks' = (tasks \ {t}) \cup run.susp
    /\ UNCHANGED <<stdin, stdinPos, stdinEnded, stdioUp, buffer, framedCount, chunkCount>>
    /\ UNCHANGED <<lifeVars, ctxVars, httpVars, clock, sseClients, listeners>>

\* an 'end' handler that only notes the end of input
StdinEndIgnored ==
    /\ Running
    /\ ~stdinEnded
    /\ stdioUp /\ stdinPos = Len(stdin)
    /\ stdinEnded' = TRUE
    /\ UNCHANGED <<lifeVars, ctxVars, tasks, httpVars, sseVars, emitted>>
    /\ UNCHANGED <<stdin, stdinPos, stdioUp, buffer, messageCount, framedCount,
                   chunkCount, decoded, stdout>>

\* the client closes its end of stdin; process.stdin.on('end') runs when
\* startStdioServer has registered it
StdinEnd ==
    /\ Running
    /\ ~stdinEnded
    /\ \/ stdioUp /\ stdinPos = Len(stdin)
       \/ mode = "http" /\ mainPc = "done"
    /\ stdinEnded' = TRUE
    /\ IF stdioUp
       THEN Exit(0, "stdin-end")
       ELSE UNCHANGED <<proc, exitCode, exitBy>>
    /\ UNCHANGED <<mode, keepAlive, mainPc, httpServer, keepAliveTimer>>
    /\ UNCHANGED <<stdin, stdinPos, stdioUp, buffer, messageCount, framedCount,
                   chunkCount, decoded, stdout>>
    /\ UNCHANGED <<ctxVars, tasks, httpVars, sseVars, emitted>>

----------------------------------------------------------------------------
(* The HTTP transport *)

Verbs == {"GET", "POST"}

\* a response whose headers were never given the three CORS entries
HttpNoCors(path, verb, status, body) ==
    [path |-> path, verb |-> verb, status |-> status, body |-> body, cors |-> FALSE]

\* a response of the request handler: the three res.setHeader calls run
\* before any branch writes the head
Http(path, verb, status, body) ==
    [path |-> path, verb |-> verb, status |-> status, body |-> body, cors |-> TRUE]

InitRoutes == {"/api/tools/list", "/api/tools/call", "/api/status"}

\* a route's code after its initializeSystem has returned, up to the next
\* await on a collaborator ("done": the response is written without one)
RouteGo(path, req, mcpTools) ==
    CASE path = "/api/tools/list" ->
            [pc |-> "done", status |-> 200, body |-> "result", events |-> <<>>,
             owner |-> "none"]
      [] path = "/api/tools/call" ->
            LET start == HandleStart(req, mcpTools) IN
            IF start.done
            THEN [pc |-> "done", status |-> 200, body |-> "error",
                  events |-> <<RouteEvent(req.name, FALSE)>>, owner |-> "none"]
            ELSE [pc |-> "tool", status |-> 0, body |-> "-", events |-> <<>>,
                  owner |-> start.owner]
      [] OTHER ->
            [pc |-> "status", status |-> 0, body |-> "-", events |-> <<>>,
             owner |-> "primary"]

\* the request handler of a route that calls initializeSystem, from the
\* request to its first await on a collaborator
HttpStart(path, verb, req) ==
    LET e == InitEnter
        go == RouteGo(path, req, e.tools)
        pc == IF e.pc = "ready" THEN go.pc ELSE e.pc
        rid == httpReqs + 1
    IN /\ httpReqs' = rid
       /\ ruvInitCalls' = e.ruv
       /\ ctorCalls' = e.ctor
       /\ depLoads' = e.loads
       /\ globalMCPTools' = e.tools
       /\ IF pc = "done"
          THEN /\ httpResp' = Append(httpResp, Http(path, verb, go.status, go.body))
               /\ emitted' = emitted \o go.events
               /\ conn' = Deliver(go.events)
               /\ tasks' = tasks
          ELSE /\ httpResp' = Append(httpResp, Http(path, verb, 0, "-"))
               /\ tasks' = tasks \cup
                     {Task(path, rid, pc, req,
                           IF e.pc = "ready" THEN go.owner ELSE "none", <<>>, 0, 0)}
               /\ UNCHANGED <<emitted, conn>>
       /\ UNCHANGED <<lifeVars, globalRuvSwarm, primaryOwn, daaOwn, depsLoaded,
                      initialized, stdioVars, clock, sseClients, listeners>>

\* a response written by the request handler itself
HttpReply(path, verb, status, body) ==
    /\ httpReqs' = httpReqs + 1
    /\ httpResp' = Append(httpResp, Http(path, verb, status, body))
    /\ UNCHANGED <<lifeVars, ctxVars, stdioVars, tasks, sseVars, emitted>>

Accepting == Running /\ httpServer = "listening" /\ httpReqs < MaxHttp

Paths == {"/health", "/events", "/api/tools/list", "/api/tools/call", "/api/status", "/other"}

\* if (req.method === 'OPTIONS')
HttpOptions(path) ==
    /\ Accepting
    /\ path \in Paths
    /\ HttpReply(path, "OPTIONS", 200, "")

\* case '/health'
HttpHealth(verb) ==
    /\ Accepting
    /\ verb \in Verbs
    /\ HttpReply("/health", verb, 200, "ok")

\* default
HttpNotFound(verb) ==
    /\ Accepting
    /\ verb \in Verbs
    /\ HttpReply("/other", verb, 404, "Not Found")

\* case '/api/tools/list'
HttpToolsList(verb) ==
    /\ Accepting
    /\ verb \in Verbs
    /\ IF verb # "GET"
       THEN HttpReply("/api/tools/list", verb, 405, "")
       ELSE HttpStart("/api/tools/list", verb, Req(NULL, "tools/list", "-"))

\* request bodies: objects naming a tool (the name of the request the
\* character stands for), a truncated object and the empty body
Bodies ==
    { <<"{", "a", "}">>, <<"{", "b", "}">>, <<"{", "e", "}">>, <<"{", "x", "}">>,
      <<"{", "a">>, <<>> }

\* case '/api/tools/call', with the body read to its end
HttpToolsCall(verb, body) ==
    /\ Accepting
    /\ verb \in Verbs
    /\ body \in Bodies
    /\ IF verb # "POST"
       THEN HttpReply("/api/tools/call", verb, 405, "")
       ELSE IF Throws(JSONparse(body))
       THEN HttpReply("/api/tools/call", verb, 400, "error")
       ELSE HttpStart("/api/tools/call", verb,
                      Req(NULL, "tools/call", JSONparse(body).value.name))

\* case '/api/status'
HttpStatus(verb) ==
    /\ Accepting
    /\ verb \in Verbs
    /\ HttpStart("/api/status", verb, Req(NULL, "swarm_status", "-"))

\* uncaughtException / unhandledRejection handlers of initializeLogger
Fatal == Exit(1, "unhandledRejection")

\* the collaborator a route's initializeSystem awaits resolves
HttpInitOk(t) ==
    /\ Running
    /\ t \in tasks
    /\ t.route \in InitRoutes
    /\ t.pc \in InitStages
    /\ LET r == InitResume(t.pc)
           go == RouteGo(t.route, t.req, r.tools)
           pc == IF r.pc = "ready" THEN go.pc ELSE r.pc
       IN /\ globalRuvSwarm' = (globalRuvSwarm \/ t.pc = "ruvInit")
          /\ globalMCPTools' = r.tools
          /\ ctorCalls' = r.ctor
          /\ ruvInitCalls' = r.ruv
          /\ depsLoaded' = r.loaded
          /\ initialized' = r.inited
          /\ IF pc = "done"
             THEN /\ httpResp' = [httpResp EXCEPT ![t.n] =
                                     Http(t.route, @.verb, go.status, go.body)]
                  /\ emitted' = emitted \o go.events
                  /\ conn' = Deliver(go.events)
                  /\ tasks' = tasks \ {t}
             ELSE /\ tasks' = (tasks \ {t}) \cup
                        {[t EXCEPT !.pc = pc,
                                   !.owner = IF r.pc = "ready" THEN go.owner ELSE "none"]}
                  /\ UNCHANGED <<httpResp, emitted, conn>>
    /\ UNCHANGED <<lifeVars, primaryOwn, daaOwn, depLoads, stdioVars, httpReqs,
                   clock, sseClients, listeners>>

\* the collaborator a route's initializeSystem awaits faults: the try block
\* of /api/tools/call answers 400, the other routes have none
HttpInitFault(t) ==
    /\ Running
    /\ t \in tasks
    /\ t.route \in InitRoutes
    /\ t.pc \in InitStages
    /\ tasks' = tasks \ {t}
    /\ IF t.route = "/api/tools/call"
       THEN /\ httpResp' = [httpResp EXCEPT ![t.n] = Http(t.route, @.verb, 400, "error")]
            /\ UNCHANGED <<proc, exitCode, exitBy>>
       ELSE /\ Fatal
            /\ UNCHANGED httpResp
    /\ UNCHANGED <<mode, keepAlive, mainPc, httpServer, keepAliveTimer>>
    /\ UNCHANGED <<ctxVars, stdioVars, httpReqs, sseVars, emitted>>

\* the awaited tool handler of POST /api/tools/call settles
HttpToolDone(t, outcome) ==
    /\ Running
    /\ t \in tasks
    /\ t.route = "/api/tools/call"
    /\ t.pc = "tool"
    /\ outcome \in Outcomes
    /\ LET fin == HandleFinish(t.req, outcome)
           ok == fin.resp.kind = "result"
           events == fin.events \o <<RouteEvent(t.req.name, ok)>>
       IN /\ emitted' = emitted \o events
          /\ conn' = Deliver(events)
          /\ httpResp' = [httpResp EXCEPT ![t.n] =
                            Http(t.route, @.verb, 200, IF ok THEN "result" ELSE "error")]
    /\ tasks' = tasks \ {t}
    /\ UNCHANGED <<lifeVars, ctxVars, stdioVars, httpReqs, clock, sseClients, listeners>>

\* the awaited swarm_status of /api/status settles
HttpStatusDone(t, outcome) ==
    /\ Running
    /\ t \in tasks
    /\ t.route = "/api/status"
    /\ t.pc = "status"
    /\ outcome \in {"value", "fault"}
    /\ tasks' = tasks \ {t}
    /\ IF outcome = "value"
       THEN /\ httpResp' = [httpResp EXCEPT ![t.n] = Http(t.route, @.verb, 200, "status")]
            /\ UNCHANGED <<proc, exitCode, exitBy>>
       ELSE /\ Fatal
            /\ UNCHANGED httpResp
    /\ UNCHANGED <<mode, keepAlive, mainPc, httpServer, keepAliveTimer>>
    /\ UNCHANGED <<ctxVars, stdioVars, httpReqs, sseVars, emitted>>

----------------------------------------------------------------------------
(* The /events route *)

\* the connection a new /events request gets
NextConn == CHOOSE c \in Conns : conn[c].state = "idle" /\ \A d \in 1..(c - 1) : conn[d].state # "idle"

\* case '/events': whatever the verb, the client is registered and subscribed
SseConnect(verb) ==
    /\ Running
    /\ httpServer = "listening"
    /\ verb \in Verbs
    /\ \E c \in Conns : conn[c].state = "idle"
    /\ LET c == NextConn
           clientId == clock
       IN /\ conn' = [conn EXCEPT ![c] =
                        [state |-> "streaming", clientId |-> clientId, timer |-> TRUE,
                         beats |-> 0, out |-> ConnectFrames(clientId),
                         since |-> Len(emitted)]]
          /\ sseClients' = MapSet(sseClients, clientId, c)
          /\ listeners' = AddListeners(listeners, c)
    /\ UNCHANGED <<lifeVars, ctxVars, stdioVars, tasks, httpVars, clock, emitted>>

\* the setInterval callback of a connection
Heartbeat(c) ==
    /\ Running
    /\ c \in Conns
    /\ conn[c].timer
    /\ conn[c].beats < MaxHeartbeats
    /\ conn' = [conn EXCEPT ![c].beats = @ + 1,
                            ![c].out = Append(@, Frame("heartbeat", "-", 0))]
    /\ UNCHANGED <<lifeVars, ctxVars, stdioVars, tasks, httpVars, clock, sseClients,
                   listeners, emitted>>

\* a close handler that leaves the heartbeat interval armed
SseCloseKeepsTimer(c) ==
    /\ Running
    /\ c \in Conns
    /\ conn[c].state = "streaming"
    /\ conn' = [conn EXCEPT ![c].state = "closed"]
    /\ sseClients' = MapDelete(sseClients, conn[c].clientId)
    /\ listeners' = RemoveAllListeners(listeners)
    /\ UNCHANGED <<lifeVars, ctxVars, stdioVars, tasks, httpVars, clock, emitted>>

\* req.on('close') of a connection
SseClose(c) ==
    /\ Running
    /\ c \in Conns
    /\ conn[c].state = "streaming"
    /\ conn' = [conn EXCEPT ![c].state = "closed", ![c].timer = FALSE]
    /\ sseClients' = MapDelete(sseClients, conn[c].clientId)
    /\ listeners' = RemoveAllListeners(listeners)
    /\ UNCHANGED <<lifeVars, ctxVars, stdioVars, tasks, httpVars, clock, emitted>>

\* a millisecond of Date.now() passes
Tick ==
    /\ Running
    /\ clock < MaxClock
    /\ clock' = clock + 1
    /\ UNCHANGED <<lifeVars, ctxVars, stdioVars, tasks, httpVars, conn, sseClients,
                   listeners, emitted>>

----------------------------------------------------------------------------
(* The specification *)

NextLife ==
    \/ MainBegin
    \/ MainListen
    \/ MainInitOk
    \/ MainInitFault
    \/ \E sig \in Signals : Signal(sig)

NextStdio ==
    \/ \E n \in 1..MaxChunk : StdinData(n)
    \/ \E t \in tasks, o \in Outcomes : StdioToolDone(t, o)
    \/ StdinEnd

NextCall ==
    \/ \E v \in Verbs, b \in Bodies : HttpToolsCall(v, b)
    \/ \E t \in tasks, o \in Outcomes : HttpToolDone(t, o)

NextHttp ==
    \/ \E p \in Paths : HttpOptions(p)
    \/ \E v \in Verbs : HttpHealth(v)
    \/ \E v \in Verbs : HttpNotFound(v)
    \/ \E v \in Verbs : HttpToolsList(v)
    \/ \E v \in Verbs : HttpStatus(v)
    \/ \E t \in tasks : HttpInitOk(t)
    \/ \E t \in tasks : HttpInitFault(t)
    \/ \E t \in tasks, o \in Outcomes : HttpStatusDone(t, o)

NextSse ==
    \/ \E v \in Verbs : SseConnect(v)
    \/ \E c \in Conns : Heartbeat(c)
    \/ \E c \in Conns : SseClose(c)
    \/ Tick

Next == NextLife \/ NextStdio \/ NextCall \/ NextHttp \/ NextSse

\* the whole gateway
Spec == Init /\ [][Next]_vars

\* the stdio transport and the process, with no HTTP client
SpecStdio == Init /\ [][NextLife \/ NextStdio]_vars

\* the HTTP routes and the process, with no stdin traffic and no /events client
SpecHttp ==
    /\ InitWith({"http", "hybrid"}, {<<>>}, Registries)
    /\ [][NextLife \/ StdinEnd \/ NextCall \/ NextHttp]_vars

\* POST /api/tools/call while fewer than BusCalls requests were made
BusToolsCall(verb, body) ==
    /\ httpReqs < BusCalls
    /\ HttpToolsCall(verb, body)

NextBusCall ==
    \/ \E v \in Verbs, b \in Bodies : BusToolsCall(v, b)
    \/ \E t \in tasks, o \in Outcomes : HttpToolDone(t, o)

\* startup and the stdio transport while the process lives
NextUp ==
    \/ MainBegin
    \/ MainInitOk
    \/ \E n \in 1..MaxChunk : StdinData(n)
    \/ \E t \in tasks, o \in Outcomes : StdioToolDone(t, o)

ShortStreams == { <<"{", "a", "}", NL>> }

\* the Event Bus in hybrid mode while the process lives: tools/call on both
\* transports and /events
SpecBus ==
    /\ InitWith({"hybrid"}, ShortStreams, {CHOOSE r \in Registries : r.primary = {"swarm_init"}})
    /\ [][NextUp \/ NextBusCall \/ NextSse]_vars

\* the /events route and the process in http mode, with no other request
SpecSse ==
    /\ InitWith({"http"}, {<<>>}, {CHOOSE r \in Registries : r.primary = {"swarm_init"}})
    /\ [][MainBegin \/ MainListen \/ (\E sig \in Signals : Signal(sig)) \/ NextSse]_vars

\* case '/events' while fewer than CallConns connections were made
CallConnect(verb) ==
    /\ conn[CallConns].state = "idle"
    /\ SseConnect(verb)

\* tools/call on both transports in hybrid mode while the process lives, with
\* /events clients coming and going
SpecCall ==
    /\ InitWith({"hybrid"}, ShortStreams, {CHOOSE r \in Registries : r.primary = {"swarm_init"}})
    /\ [][\/ NextUp
          \/ NextBusCall
          \/ \E v \in Verbs : CallConnect(v)
          \/ \E c \in Conns : SseClose(c)
          \/ Tick]_vars

NullStreams ==
    { NullText \o <<NL, "{", "a", "}", NL>>,
      <<"{", "l", "}", NL>> \o NullText \o <<NL>> }

\* the stdio transport in stdio mode reading lines that hold the JSON text
\* null
SpecParse ==
    /\ InitWith({"stdio"}, NullStreams, {CHOOSE r \in Registries : r.primary = {"swarm_init"}})
    /\ [][NextUp \/ StdinEnd]_vars

MethodStreams ==
    { <<"{", "u", "}", NL, "{", "a", "}", NL>>,
      <<"{", "a", "}", NL, "{", "u", "}", NL, "{", "x", "}", NL>>,
      <<"{", "l", "}", NL, "{", "a", "}", NL, "{", "l", "}", NL>> }

\* the dispatcher behind the stdio transport in hybrid mode while the process
\* lives, with /events clients coming and going
SpecDispatch ==
    /\ InitWith({"hybrid"}, MethodStreams, {CHOOSE r \in Registries : r.primary = {"swarm_init"}})
    /\ [][\/ NextUp
          \/ \E v \in Verbs : CallConnect(v)
          \/ \E c \in Conns : SseClose(c)]_vars

----------------------------------------------------------------------------
(* What the properties below speak about *)

Streaming(c) == conn[c].state = "streaming"

\* the part of the input stream delivered so far
Delivered == SubSeq(stdin, 1, stdinPos)

\* the newline-terminated lines of a text, in order
TerminatedLines(s) == AllButLast(Split(s))

NonBlank(line) == Trim(line) # <<>>

\* the newline-terminated lines of a text that are not whitespace only
ExpectedLines(s) == SelectSeq(TerminatedLines(s), NonBlank)

IsPrefix(a, b) == Len(a) <= Len(b) /\ SubSeq(b, 1, Len(a)) = a

StdioPending == {t \in tasks : t.route = "stdio"}

\* a line the 'data' handler hands to JSON.parse and JSON.parse rejects
InvalidLine(line) == NonBlank(line) /\ ~JSONparse(line).ok

\* the parse-error responses on stdout
ParseErrors == {i \in DOMAIN stdout : stdout[i].code = ParseErrorCode}

\* no 'data' handler is suspended and the process runs
Quiescent == Running /\ StdioPending = {}

\* the name is a function of EnhancedMCPTools or of daaMcpTools
Callable(name) == name \in primaryOwn \cup daaOwn

\* the methods the switch of handleMcpRequest has a case for
KnownMethods == {"initialize", "tools/list", "tools/call"}

\* the k-th terminated line of the input stream
StreamLine(k) == TerminatedLines(stdin)[k]

\* the k-th terminated line of the stream is a request with another method
UnknownMethodLine(k) ==
    LET parsed == JSONparse(StreamLine(k)) IN
    parsed.ok /\ parsed.value.method \notin KnownMethods

\* the responses written for the k-th terminated line of the stream
ResponsesTo(k) == {i \in DOMAIN stdout : stdout[i].line = k}

\* in this step the pending tools/call t returns a result to its client
Succeeds(t) ==
    /\ t \in tasks
    /\ t \notin tasks'
    /\ t.pc = "tool"
    /\ IF t.route = "stdio"
       THEN \E i \in (DOMAIN stdout') \ (DOMAIN stdout) :
               stdout'[i].line = t.line /\ stdout'[i].kind = "result"
       ELSE httpResp'[t.n].status = 200 /\ httpResp'[t.n].body = "result"

\* in this step a tool:executed event for the call t is published on the bus
PublishedFor(t) ==
    \E k \in (Len(emitted) + 1)..Len(emitted') :
        /\ emitted'[k].type = "tool:executed"
        /\ emitted'[k].tool = t.req.name
        /\ emitted'[k].timestamp = clock

\* initializeSystem has seen both globalMCPTools.initialize and
\* daaMcpTools.ensureInitialized resolve
ContextReady == {"initialize", "ensureInitialized"} \subseteq initialized

\* the tools/call requests whose tool handler has been invoked and not settled
Invoked == {t \in tasks : t.pc = "tool"}

\* the tools/call requests whose handler settles in this step
Settling == {t \in Invoked : t \notin tasks'}

\* the numbers of the lines a suspended 'data' handler still has to run
RestLines(t) == {t.rest[j].line : j \in {j \in DOMAIN t.rest : NonBlank(t.rest[j].text)}}

\* the frames of connection c that render an Event Bus event
EventFrames(c) == SelectSeq(conn[c].out, LAMBDA f : f.event \in EventTypes)

\* the verb each route is announced with when the server starts listening
RouteVerb ==
    [p \in {"/health", "/events", "/api/tools/list", "/api/status"} |-> "GET"]
    @@ [p \in {"/api/tools/call"} |-> "POST"]

\* the text is one JSON value of the texts modelled
WellFormedJSON(text) == \E k \in RequestKeys : Trim(text) = <<"{", k, "}">>

\* in this step a tool:executed frame is written to connection c
FrameWritten(c) ==
    \E k \in (Len(conn[c].out) + 1)..Len(conn'[c].out) :
        conn'[c].out[k].event = "tool:executed"

----------------------------------------------------------------------------
(* The claims *)

\* C1: in hybrid mode, once stdin has reached end-of-input and no termination
\* signal has arrived, the process is still running and the HTTP listener is
\* still listening.
C1_HybridSurvivesStdinEnd ==
    (mode = "hybrid" /\ stdinEnded /\ exitBy # "signal")
        => (proc = "running" /\ httpServer = "listening")

\* C2: every request read on stdio with a non-null id gets exactly one
\* response, with the request's id: never more than one, never another id,
\* and exactly one once nothing is pending any more or the process has exited
\* at end-of-input.
C2_ExactlyOneResponse ==
    \A k \in 1..Len(TerminatedLines(Delivered)) :
        LET parsed == JSONparse(TerminatedLines(Delivered)[k]) IN
        (parsed.ok /\ parsed.value.id # NULL) =>
            /\ Cardinality(ResponsesTo(k)) <= 1
            /\ \A i \in ResponsesTo(k) : stdout[i].id = parsed.value.id
            /\ (exitBy = "stdin-end" \/ (Running /\ StdioPending = {}))
                  => Cardinality(ResponsesTo(k)) = 1

\* C3: when a tools/call returns a result while an SSE client is connected,
\* a tool:executed frame is written to that client's stream in the same step
\* (hence before any later heartbeat).
C3_ToolExecutedFrame ==
    [][\A t \in tasks, c \in Conns :
          (Succeeds(t) /\ Streaming(c)) => FrameWritten(c)]_vars

\* C4: a step in which a client stays connected (another one may disconnect)
\* removes none of that client's Event Bus subscriptions.
C4_OthersKeepSubscriptions ==
    [][\A c \in Conns :
          (Streaming(c) /\ conn'[c].state = "streaming") =>
              \A ty \in EventTypes : (c \in listeners[ty]) => (c \in listeners'[ty])]_vars

\* C5: the lines handed to JSON.parse are, in order and each once, the
\* newline-terminated non-blank lines of the stream delivered so far: always
\* a prefix of them, and all of them once no handler is pending.
C5_FramingInOrder ==
    /\ IsPrefix(decoded, ExpectedLines(Delivered))
    /\ (Running /\ StdioPending = {}) => decoded = ExpectedLines(Delivered)

\* C6: the responses on stdout appear in the order in which their lines left
\* the buffer.
C6_ResponsesInParseOrder ==
    \A i, j \in DOMAIN stdout : i < j => stdout[i].line < stdout[j].line

\* C7: the process never exits through the unhandled-rejection handler: no
\* fault of a collaborator awaited by a request handler ends the process.
C7_NoRequestFaultExits ==
    exitBy # "unhandledRejection"

\* C8: a tools/call for a name that both registries define as a function
\* invokes the primary registry's function.
C8_PrimaryHandlerInvoked ==
    \A t \in tasks :
        (t.pc = "tool" /\ t.req.name \in primaryOwn /\ t.req.name \in daaOwn)
            => t.owner = "primary"

\* C9: when no /events connection is open, the Event Bus has no listener
\* registered for any event type.
C9_NoListenersWhenAllClosed ==
    (\A c \in Conns : ~Streaming(c)) => \A ty \in EventTypes : listeners[ty] = {}

\* C9 witness: two clients have connected and both have disconnected.
C9_Witness ==
    /\ conn[1].state = "closed"
    /\ conn[2].state = "closed"
    /\ \A ty \in EventTypes : listeners[ty] = {}

C11_InvokedOnlyWhenReady ==
    \A t \in Invoked : ContextReady

\* C12: each line JSON.parse rejects gets exactly one response, with code
\* -32700 and id null; the other lines are not affected: once no handler is
\* pending every non-blank line of the stream delivered so far, in the same
\* chunk or a later one, has exactly one response, a valid line's response
\* carrying its own id and no parse error; and the step that writes a parse
\* error neither ends stdin nor stops the process.
C12_ParseErrorIsolated ==
    /\ [](LET lines == TerminatedLines(Delivered) IN
          /\ Cardinality(ParseErrors) = Len(SelectSeq(decoded, InvalidLine))
          /\ \A k \in 1..Len(lines) :
                InvalidLine(lines[k]) =>
                    /\ Cardinality(ResponsesTo(k)) <= 1
                    /\ \A i \in ResponsesTo(k) :
                          /\ stdout[i].kind = "error"
                          /\ stdout[i].code = ParseErrorCode
                          /\ stdout[i].id = NULL
          /\ Quiescent =>
                \A k \in 1..Len(lines) :
                    NonBlank(lines[k]) =>
                        /\ Cardinality(ResponsesTo(k)) = 1
                        /\ JSONparse(lines[k]).ok =>
                              \A i \in ResponsesTo(k) :
                                  /\ stdout[i].id = JSONparse(lines[k]).value.id
                                  /\ stdout[i].code # ParseErrorCode)
    /\ [][Cardinality(ParseErrors') > Cardinality(ParseErrors)
            => (Running /\ proc' = proc /\ stdinEnded' = stdinEnded)]_vars

\* C12 witness: the stream "?", tools/list, tools/call has been delivered in
\* two or more chunks; the first line got the parse error and the two lines
\* after it got their results.
C12_Witness ==
    /\ Quiescent
    /\ stdinPos = Len(stdin)
    /\ Len(stdout) = 4
    /\ stdout[2].code = ParseErrorCode /\ stdout[2].line = 1 /\ stdout[2].id = NULL
    /\ stdout[3].kind = "result" /\ stdout[3].line = 2 /\ stdout[3].chunk = 1
    /\ stdout[4].kind = "result" /\ stdout[4].line = 3 /\ stdout[4].chunk = 2

\* C13: a tools/call on stdio whose name no registry defines as a function
\* never has a handler invoked for it, every response to it is an error with
\* code -32601 and the tool name in data, and it has that response as soon as
\* its line was handed to JSON.parse.
C13_UnknownToolNotFound ==
    LET lines == TerminatedLines(Delivered) IN
    \A k \in 1..Len(lines) :
        LET parsed == JSONparse(lines[k]) IN
        (parsed.ok /\ parsed.value.method = "tools/call" /\ ~Callable(parsed.value.name)) =>
            /\ \A t \in Invoked : t.route = "stdio" => t.line # k
            /\ \A i \in ResponsesTo(k) :
                  /\ stdout[i].kind = "error"
                  /\ stdout[i].code = MethodNotFound
                  /\ stdout[i].data = parsed.value.name
                  /\ stdout[i].id = parsed.value.id
            /\ Cardinality(ResponsesTo(k)) <= 1
            /\ Quiescent => Cardinality(ResponsesTo(k)) = 1

\* C13 witness: the call of nonexistent_tool has been answered with -32601
\* naming the tool, and no handler is pending.
C13_Witness ==
    /\ Quiescent
    /\ \E i \in DOMAIN stdout :
          /\ stdout[i].method = "tools/call"
          /\ stdout[i].code = MethodNotFound
          /\ stdout[i].data = "nonexistent_tool"
          /\ stdout[i].id = "4"

\* C14: every response to a request whose method is none of initialize,
\* tools/list, tools/call is an error with code -32601, the method name in
\* data and the request's id, and there is exactly one once no handler is
\* pending; the step that writes it leaves the registries, the client map and
\* the subscriptions as they were and publishes nothing on the Event Bus
\* beyond the events of the tools/call requests that settle in that step.
C14_UnknownMethodNotFound ==
    /\ [](\A k \in 1..Len(TerminatedLines(Delivered)) :
            UnknownMethodLine(k) =>
                LET request == JSONparse(StreamLine(k)).value IN
                /\ \A i \in ResponsesTo(k) :
                      /\ stdout[i].kind = "error"
                      /\ stdout[i].code = MethodNotFound
                      /\ stdout[i].data = request.method
                      /\ stdout[i].id = request.id
                /\ Cardinality(ResponsesTo(k)) <= 1
                /\ Quiescent => Cardinality(ResponsesTo(k)) = 1)
    /\ [][(\E i \in (DOMAIN stdout') \ (DOMAIN stdout) :
               \E k \in 1..Len(TerminatedLines(stdin)) :
                   stdout'[i].line = k /\ UnknownMethodLine(k))
            => /\ UNCHANGED <<ctxVars, sseClients, listeners>>
               /\ Len(emitted') - Len(emitted) <= Cardinality(Settling)
               /\ \A e \in (Len(emitted) + 1)..Len(emitted') :
                     \E t \in Settling : emitted'[e].tool = t.req.name
               /\ Settling = {} => conn' = conn]_vars

\* C14 witness: while an /events client is connected, the ping request has
\* been answered with -32601 naming the method, after a tools/call that
\* published its event.
C14_Witness ==
    /\ \E c \in Conns : Streaming(c)
    /\ Len(emitted) = 1
    /\ \E i \in DOMAIN stdout :
          /\ stdout[i].method = "ping"
          /\ stdout[i].code = MethodNotFound
          /\ stdout[i].data = "ping"
          /\ stdout[i].id = "7"
          /\ stdout[i].line = 2

\* C15: when the handler a stdio tools/call awaits throws or rejects, the
\* response written for that request is an error with code -32603, the
\* fault's message in data and the request's id; the process keeps running
\* with stdin open, and each later line of the chunk is answered in that step
\* or is held by the handler that goes on with it.
C15_FaultBecomesInternalError ==
    [][\A t \in Invoked :
          (t.route = "stdio" /\ StdioToolDone(t, "fault")) =>
              /\ \E i \in (DOMAIN stdout') \ (DOMAIN stdout) :
                    /\ stdout'[i].line = t.line
                    /\ stdout'[i].kind = "error"
                    /\ stdout'[i].code = InternalError
                    /\ stdout'[i].data = "fault"
                    /\ stdout'[i].id = t.req.id
              /\ proc' = "running"
              /\ stdioUp'
              /\ stdinEnded' = stdinEnded
              /\ \A k \in RestLines(t) :
                    \/ \E i \in (DOMAIN stdout') \ (DOMAIN stdout) : stdout'[i].line = k
                    \/ \E u \in tasks' \ tasks : u.line = k \/ k \in RestLines(u)]_vars

\* C15 witness: the tools/call of line 1 faulted and was answered with
\* -32603; the two requests after it were answered afterwards, and the
\* process runs.
C15_Witness ==
    /\ Quiescent
    /\ Len(stdout) = 4
    /\ stdout[2].line = 1 /\ stdout[2].code = InternalError /\ stdout[2].data = "fault"
    /\ stdout[3].line = 2 /\ stdout[3].method = "ping"
    /\ stdout[4].line = 3 /\ stdout[4].data = "nonexistent_tool"

C17_NoReplay ==
    \A c \in Conns :
        /\ Len(EventFrames(c)) <= Len(emitted) - conn[c].since
        /\ \A j \in DOMAIN EventFrames(c) :
              \E k \in (conn[c].since + 1)..Len(emitted) :
                  /\ emitted[k].type = EventFrames(c)[j].event
                  /\ emitted[k].tool = EventFrames(c)[j].tool
                  /\ emitted[k].timestamp = EventFrames(c)[j].ts

\* C17 witness: an event was published, a client connected after it, and
\* the client's stream holds the connected frame only.
C17_Witness ==
    \E c \in Conns :
        /\ Streaming(c)
        /\ conn[c].since > 0
        /\ emitted # <<>>
        /\ conn[c].out = ConnectFrames(conn[c].clientId)

\* C18: when the process has exited on SIGTERM or SIGINT, the HTTP listener
\* was closed first and no /events connection is left open: each one that
\* was open reached the closed state before the exit.
C18_SignalClosesCleanly ==
    exitBy = "signal" =>
        /\ httpServer # "listening"
        /\ \A c \in Conns : ~Streaming(c)

\* C19: a request to a fixed-verb route with another verb than the route's,
\* OPTIONS apart, is answered with status 405 and no handler runs for it.
C19_WrongVerbIs405 ==
    \A n \in DOMAIN httpResp :
        (/\ httpResp[n].path \in DOMAIN RouteVerb
         /\ httpResp[n].verb # "OPTIONS"
         /\ httpResp[n].verb # RouteVerb[httpResp[n].path]) =>
            /\ httpResp[n].status = 405
            /\ \A t \in tasks : t.route = "stdio" \/ t.n # n

\* C20: the step that handles a POST /api/tools/call whose body is not valid
\* JSON answers it with status 400 and an {error} body, starts no handler
\* (not even initializeSystem), and publishes no event.
C20_BadBodyIs400 ==
    [][\A b \in Bodies :
          (~WellFormedJSON(b) /\ HttpToolsCall("POST", b)) =>
              /\ httpResp'[httpReqs'] = Http("/api/tools/call", "POST", 400, "error")
              /\ tasks' = tasks
              /\ emitted' = emitted
              /\ conn' = conn
              /\ UNCHANGED ctxVars]_vars

\* C20 witness: in http mode a POST /api/tools/call was answered 400 although
\* initializeSystem was never entered: its body did not parse.
C20_Witness ==
    /\ mode = "http"
    /\ ruvInitCalls = 0
    /\ tasks = {}
    /\ emitted = <<>>
    /\ \E n \in DOMAIN httpResp :
          httpResp[n] = Http("/api/tools/call", "POST", 400, "error")

\* C21: a step that publishes an event while the client map is empty keeps
\* the process running, leaves the client map empty, the subscription table
\* and every connection's stream as they were, and keeps the event nowhere.
C21_PublishWithNoClients ==
    [][(Len(emitted') > Len(emitted) /\ sseClients = {}) =>
          /\ proc' = "running"
          /\ sseClients' = {}
          /\ listeners' = listeners
          /\ conn' = conn]_vars

\* C21 witness: an event is on the bus log although no client has ever
\* connected, and the process runs.
C21_Witness ==
    /\ Running
    /\ emitted # <<>>
    /\ sseClients = {}
    /\ \A c \in Conns : conn[c] = IdleConn
    /\ \A ty \in EventTypes : listeners[ty] = {}

\* C22: the stream of every connection that was made begins with the
\* connected frame carrying the connection's own clientId, and that frame
\* occurs once: every heartbeat and every event frame comes after it.
C22_ConnectedFirst ==
    \A c \in Conns :
        conn[c].state # "idle" =>
            /\ conn[c].out # <<>>
            /\ conn[c].out[1] = Frame("connected", "-", conn[c].clientId)
            /\ \A j \in 2..Len(conn[c].out) : conn[c].out[j].event # "connected"

\* C22 witness: a connection made at a later clock value whose stream holds
\* its connected frame followed by a heartbeat.
C22_Witness ==
    \E c \in Conns :
        /\ Streaming(c)
        /\ conn[c].clientId > 0
        /\ conn[c].out = <<Frame("connected", "-", conn[c].clientId), Frame("heartbeat", "-", 0)>>

\* C23: once the stdin handlers are registered the server.initialized
\* greeting is on stdout; it is the first thing written and it is written
\* once, so every response comes after it.
C23_GreetingOnceAndFirst ==
    /\ stdioUp => stdout # <<>>
    /\ stdout # <<>> =>
          /\ stdout[1].kind = "notification"
          /\ stdout[1].method = "server.initialized"
          /\ \A i \in 2..Len(stdout) :
                stdout[i].kind # "notification" /\ stdout[i].method # "server.initialized"

\* C23 witness: the greeting followed by the responses to three requests.
C23_Witness ==
    /\ Len(stdout) = 4
    /\ stdout[1] = Greeting
    /\ \A i \in 2..4 : stdout[i].kind \in {"result", "error"}

\* C24: all tools/list responses on stdout are results carrying the same
\* descriptor set, and the step that writes one leaves the registries, the
\* client map and the subscriptions as they were and publishes nothing on
\* the Event Bus beyond the events of the tools/call requests that settle in
\* that step.
C24_ToolsListIdempotent ==
    /\ [](\A i, j \in DOMAIN stdout :
            (stdout[i].method = "tools/list" /\ stdout[j].method = "tools/list") =>
                /\ stdout[i].kind = "result"
                /\ stdout[i].tools = stdout[j].tools)
    /\ [][(\E i \in (DOMAIN stdout') \ (DOMAIN stdout) : stdout'[i].method = "tools/list")
            => /\ UNCHANGED <<ctxVars, sseClients, listeners>>
               /\ Len(emitted') - Len(emitted) <= Cardinality(Settling)
               /\ \A e \in (Len(emitted) + 1)..Len(emitted') :
                     \E t \in Settling : emitted'[e].tool = t.req.name
               /\ Settling = {} => conn' = conn]_vars

\* C24 witness: two tools/list responses with the result of a tools/call
\* between them, both listing swarm_init.
C24_Witness ==
    /\ Len(stdout) = 4
    /\ stdout[2].method = "tools/list" /\ stdout[2].tools = {"swarm_init"}
    /\ stdout[3].method = "tools/call" /\ stdout[3].kind = "result"
    /\ stdout[4].method = "tools/list" /\ stdout[4].tools = {"swarm_init"}

\* C27: RuvSwarm.initialize and the EnhancedMCPTools constructor each run at
\* most once in a process, however the callers of initializeSystem overlap.
C27_ContextBuiltOnce ==
    ruvInitCalls <= 1 /\ ctorCalls <= 1

\* C25: a process started with --keep-alive or --daemon (or with
\* CLAUDE_FLOW_MODE=true) is still running after stdin has reached
\* end-of-input, in every mode, as long as no termination signal arrived.
C25_KeepAliveSurvivesStdinEnd ==
    (keepAlive /\ stdinEnded /\ exitBy # "signal") => proc = "running"

\* C28: loadDependencies starts the imports at most once in a process, and
\* exactly once, with the imports assigned, by the time a transport accepts
\* requests or a caller of initializeSystem is under way.
C28_DepsLoadedOnce ==
    /\ depLoads <= 1
    /\ (httpServer = "listening" \/ stdioUp \/ tasks # {}) => (depLoads = 1 /\ depsLoaded)

\* C28 witness: two HTTP requests are inside initializeSystem at the same
\* time and the imports have been started once.
C28_Witness ==
    /\ depLoads = 1
    /\ Cardinality({t \in tasks : t.pc \in InitStages}) = 2

\* C29: whenever a transport accepts requests (the HTTP server listens or
\* the stdin handlers are registered), the shared context is fully built.
C29_ContextBeforeTransports ==
    (httpServer = "listening" \/ stdioUp) => ContextReady

\* the responses whose head has been written
WrittenResponses == {i \in 1..Len(httpResp) : httpResp[i].status # 0}

\* C26: every HTTP response written, whatever its route, verb and status,
\* carries the three CORS headers; an OPTIONS request to any path is
\* answered 200 with an empty body, and answering it starts no route action:
\* the context, the pending handlers and the emitted events are unchanged.
C26_CorsOnEveryResponse ==
    /\ [](\A i \in WrittenResponses :
            /\ httpResp[i].cors
            /\ httpResp[i].verb = "OPTIONS" =>
                  (httpResp[i].status = 200 /\ httpResp[i].body = ""))
    /\ [][(/\ Len(httpResp') = Len(httpResp) + 1
           /\ httpResp'[Len(httpResp')].verb = "OPTIONS")
          => (/\ httpResp'[Len(httpResp')].status = 200
              /\ UNCHANGED <<ctxVars, tasks, emitted, sseVars>>)]_vars

\* C26 witness: an OPTIONS request to /api/tools/call was answered 200 while
\* the context is still unbuilt, and another request was answered 400.
C26_Witness ==
    /\ ctorCalls = 0
    /\ \E i, j \in WrittenResponses :
          /\ httpResp[i].verb = "OPTIONS"
          /\ httpResp[i].path = "/api/tools/call"
          /\ httpResp[i].status = 200
          /\ httpResp[j].status = 400
          /\ httpResp[j].cors

\* C30: once an /events client has disconnected, its heartbeat timer is
\* cancelled, no entry of the client set refers to it, and its stream is
\* never written again.
C30_ClosedStaysSilent ==
    /\ [](\A c \in Conns : conn[c].state = "closed" =>
            (~conn[c].timer /\ \A p \in sseClients : p[2] # c))
    /\ [][\A c \in Conns : conn[c].state = "closed" => conn'[c].out = conn[c].out]_vars

\* C30 witness: one client has disconnected with only its connected frame
\* written, while another still streams and has been sent a heartbeat.
C30_Witness ==
    \E c, d \in Conns :
        /\ conn[c].state = "closed"
        /\ conn[c].out = ConnectFrames(conn[c].clientId)
        /\ Streaming(d)
        /\ conn[d].beats = 1
        /\ \E p \in sseClients : p[2] = d

\* response.result is set
HasResult(r) == r.kind = "result"

\* response.error is set
HasError(r) == r.kind = "error"

\* the responses on stdout that handleMcpRequest built
DispatcherResponses ==
    {i \in DOMAIN stdout : stdout[i].line > 0 /\ stdout[i].code # ParseErrorCode}

\* C31: every response the dispatcher built carries exactly one of result
\* and error, whatever the method and the outcome; an error carries one of
\* the dispatcher's two codes and a result carries none.
C31_ExactlyOneOfResultAndError ==
    \A i \in DispatcherResponses :
        /\ HasResult(stdout[i]) # HasError(stdout[i])
        /\ HasResult(stdout[i]) => stdout[i].code = 0
        /\ HasError(stdout[i]) => stdout[i].code \in {MethodNotFound, InternalError}

\* C31 witness: one run has answered a tools/call whose handler faulted, an
\* unknown method and an unknown tool, and every one of them is on stdout.
C31_Witness ==
    /\ \E i \in DispatcherResponses :
          stdout[i].method = "tools/call" /\ stdout[i].code = InternalError
    /\ \E i \in DispatcherResponses :
          stdout[i].method = "ping" /\ stdout[i].code = MethodNotFound
    /\ \E i \in DispatcherResponses :
          /\ stdout[i].method = "tools/call"
          /\ stdout[i].code = MethodNotFound
          /\ stdout[i].data = "nonexistent_tool"

\* C32: after each chunk the accumulation buffer holds no line terminator
\* and is exactly the text received since the last line terminator (the
\* whole text received if there was none), so no emitted line is in it.
C32_BufferIsOpenLine ==
    /\ \A i \in DOMAIN buffer : buffer[i] # NL
    /\ \E k \in 0..Len(Delivered) :
          /\ k = 0 \/ Delivered[k] = NL
          /\ buffer = SubSeq(Delivered, k + 1, Len(Delivered))

\* C32 witness: after two chunks and at least one emitted line, the buffer
\* holds the unterminated start of the next line.
C32_Witness ==
    /\ chunkCount >= 2
    /\ framedCount >= 1
    /\ buffer # <<>>
    /\ Len(buffer) < Len(Delivered)

\* C33: the open /events connections have pairwise distinct clientIds and
\* the client set holds exactly one entry for each of them.
C33_OneEntryPerOpenClient ==
    /\ \A c, d \in Conns :
          (Streaming(c) /\ Streaming(d) /\ c # d) => conn[c].clientId # conn[d].clientId
    /\ {p[2] : p \in sseClients} = {c \in Conns : Streaming(c)}

\* C34: a tools/call is answered with the method-not-found error only when
\* no registry defines its name as a function: a call whose name resolves is
\* never answered -32601, whatever its handler returned.
C34_NotFoundOnlyForUnknownTools ==
    \A i \in DispatcherResponses :
        (stdout[i].method = "tools/call" /\ stdout[i].code = MethodNotFound)
            => ~Callable(stdout[i].data)

\* in this step a tools/call returns a result to its client, on stdout or in
\* the body of an HTTP response
ResultReturned ==
    \/ \E i \in (DOMAIN stdout') \ (DOMAIN stdout) :
          stdout'[i].method = "tools/call" /\ stdout'[i].kind = "result"
    \/ \E n \in DOMAIN httpResp' :
          /\ httpResp'[n].path = "/api/tools/call"
          /\ httpResp'[n].body = "result"
          /\ (n \in DOMAIN httpResp => httpResp[n].body # "result")

\* C35: an event is published on the Event Bus only in a step in which a
\* tools/call returns a result: a call that ends in an error (unknown tool
\* or handler fault) publishes nothing, on either transport.
C35_ErrorPublishesNothing ==
    [][emitted' # emitted => ResultReturned]_vars

\* C36: a step settles at most one tools/call, and it publishes at most one
\* tool:executed event for it, on stdio and on POST /api/tools/call alike
\* and whatever the number of connected clients.
C36_AtMostOneEventPerCall ==
    [][Len(emitted') <= Len(emitted) + 1]_vars

\* C37: a parse-error response (-32700) is written only for a line that
\* JSON.parse rejects: a line holding valid JSON, whatever its shape, is
\* never answered with -32700.
C37_ParseErrorOnlyForInvalidJSON ==
    \A i \in ParseErrors : ~JSONparse(StreamLine(stdout[i].line)).ok

\* C38: when the process has exited at end-of-input, every request line it
\* received has had its response written to stdout, also the one whose tool
\* call was still pending when stdin ended.
C38_PendingAnsweredBeforeExit ==
    exitBy = "stdin-end" =>
        \A k \in 1..Len(TerminatedLines(Delivered)) :
            NonBlank(TerminatedLines(Delivered)[k]) => ResponsesTo(k) # {}

====
